---- MODULE Spec2Model ----
(***************************************************************************)
(* State-machine model of FindInPageView (browser/find_in_page_view.cc):   *)
(* the Find-in-Page panel, its result-state tracking, its label and        *)
(* buttons, its layout, and the calls it makes on its FindInPageController.*)
(***************************************************************************)
EXTENDS Integers, Sequences, FiniteSets, TLC

(***************************************************************************)
(* Bounds of the model.                                                    *)
(***************************************************************************)
MaxCount == 3
MaxOrdinal == 2
MaxTextLen == 2

(***************************************************************************)
(* Constants of find_in_page_view.cc.                                      *)
(***************************************************************************)
kWhiteSpaceAfterMatchCountLabel == 3
kMarginLeftOfCloseButton == 5
kMarginRightOfCloseButton == 5
kMarginLeftOfFindTextField == 12
kMatchCountExtraWidth == 9
kMatchCountMinWidth == 30
kDefaultCharWidth == 43

kTextColorMatchCount == "RGB(178,178,178)"
kTextColorNoMatch == "SK_ColorBLACK"
kBackgroundColorMatch == "RGB(255,255,255)"
kBackgroundColorNoMatch == "RGB(255,102,102)"

\* Background of a views::Label on which SetBackground was never called.
NoBackground == "NULL"

FIND_PREVIOUS_TAG == "FIND_PREVIOUS_TAG"
FIND_NEXT_TAG == "FIND_NEXT_TAG"
CLOSE_TAG == "CLOSE_TAG"
\* Tag of a button that is none of the panel's three buttons.
UNKNOWN_TAG == "UNKNOWN_TAG"
\* Tag of a button on which SetListener was never called.
NoTag == "none"

VK_RETURN == "VK_RETURN"
VK_OTHER == "VK_OTHER"

(***************************************************************************)
(* Inputs.                                                                 *)
(***************************************************************************)
RECURSIVE TextOfLen(_)
TextOfLen(n) == IF n = 0 THEN "" ELSE TextOfLen(n - 1) \o "a"

\* Contents the user can give the text field.
Texts == { TextOfLen(n) : n \in 0..MaxTextLen }
\* number_of_matches values the controller passes (negative: "ignore").
Counts == (-2)..MaxCount
\* ordinal values the controller passes (negative: "ignore").
Ordinals == (-2)..MaxOrdinal
Keys == { VK_RETURN, VK_OTHER }
Tags == { FIND_PREVIOUS_TAG, FIND_NEXT_TAG, CLOSE_TAG, UNKNOWN_TAG }

(***************************************************************************)
(* Toolkit and resource values the panel reads.                            *)
(***************************************************************************)
\* Pixel width of one character of the base font, and the font's height.
FontCharWidth == 6
FontHeight == 13
\* height() values the host gives the panel.
PanelHeights == { 32, 33 }
\* kDlgBackground_middle->height()
DlgBackgroundMiddleHeight == 32

Size(w, h) == [width |-> w, height |-> h]
Rect(x, y, w, h) == [x |-> x, y |-> y, width |-> w, height |-> h]

\* views::Button::GetPreferredSize(): the size of the button's image.
CloseButtonPreferredSize == Size(15, 15)
FindNextButtonPreferredSize == Size(26, 23)
FindPreviousButtonPreferredSize == Size(27, 23)
\* views::TextField::GetPreferredSize(): default_width_in_chars wide.
FindTextPreferredSize == Size(kDefaultCharWidth * FontCharWidth + 6, 20)
\* views::Label::GetPreferredSize(): the extent of the label's text.
LabelPreferredSize(text) == Size(FontCharWidth * Len(text), FontHeight)

Max(a, b) == IF a >= b THEN a ELSE b
\* C++ integer division by 2 (truncation toward zero).
Half(a) == IF a >= 0 THEN a \div 2 ELSE -((-a) \div 2)

(***************************************************************************)
(* IntToWString and the IDS_FIND_IN_PAGE_COUNT format.                     *)
(***************************************************************************)
DigitChar == << "0", "1", "2", "3", "4", "5", "6", "7", "8", "9" >>

RECURSIVE Digits(_)
Digits(n) == IF n < 10 THEN DigitChar[n + 1]
             ELSE Digits(n \div 10) \o DigitChar[(n % 10) + 1]

IntToWString(n) == IF n < 0 THEN "-" \o Digits(-n) ELSE Digits(n)

\* l10n_util::GetStringF(IDS_FIND_IN_PAGE_COUNT, a, b): "$1 of $2".
GetStringF(a, b) == a \o " of " \o b

(***************************************************************************)
(* State.                                                                  *)
(*   view        the FindInPageView object and its child controls          *)
(*   find_string the controller's find string (set_find_string)            *)
(*   calls       the calls made on controller_ by the last handler         *)
(*   lastOp      the handler that ran last, with its arguments             *)
(***************************************************************************)
VARIABLES view, find_string, calls, lastOp

vars == << view, find_string, calls, lastOp >>

\* op: the handler; n: its integer argument; flag, flag2: its boolean
\* arguments; str: its text, key or tag argument.
Op(op, n, flag, flag2, str) ==
  [op |-> op, n |-> n, flag |-> flag, flag2 |-> flag2, str |-> str]

Call(fn, arg) == [fn |-> fn, arg |-> arg]

ZeroRect == Rect(0, 0, 0, 0)

\* The object the constructor leaves.
Constructed ==
  [ match_count_          |-> -1,
    active_match_ordinal_ |-> -1,
    find_text             |-> "",
    text_controller       |-> FALSE,
    label_text            |-> "",
    label_background      |-> NoBackground,
    label_color           |-> kTextColorMatchCount,
    previous_enabled      |-> FALSE,
    next_enabled          |-> FALSE,
    previous_tag          |-> NoTag,
    next_tag              |-> NoTag,
    close_tag             |-> NoTag,
    height                |-> 0,
    close_bounds          |-> ZeroRect,
    next_bounds           |-> ZeroRect,
    previous_bounds       |-> ZeroRect,
    label_bounds          |-> ZeroRect,
    text_bounds           |-> ZeroRect,
    forwarder_bounds      |-> ZeroRect,
    beeps                 |-> 0,
    resets                |-> 0,
    faults                |-> 0 ]

\* A handler starts with no alert emitted, no label reset made and no
\* NOTREACHED hit: beeps, resets and faults count those of one handler.
Enter(v) == [v EXCEPT !.beeps = 0, !.resets = 0, !.faults = 0]

(***************************************************************************)
(* FindInPageView::GetPreferredSize and FindInPageView::Layout.            *)
(***************************************************************************)
GetPreferredSize ==
  Size(FindTextPreferredSize.width
         + (kMarginLeftOfCloseButton + kMarginRightOfCloseButton
              + kMarginLeftOfFindTextField)
         + FindPreviousButtonPreferredSize.width
         + FindNextButtonPreferredSize.width
         + CloseButtonPreferredSize.width,
       DlgBackgroundMiddleHeight)

\* MatchCountSize, but without the minimum width.
MatchCountSize_NoMinimum(text) ==
  Size(LabelPreferredSize(text).width + kMatchCountExtraWidth,
       LabelPreferredSize(text).height)

\* The label's size in Layout: preferred size, enlarged, at least the minimum.
MatchCountSize(text) ==
  Size(Max(kMatchCountMinWidth,
           LabelPreferredSize(text).width + kMatchCountExtraWidth),
       LabelPreferredSize(text).height)

Layout(v) ==
  LET panel_size == GetPreferredSize
      csz   == CloseButtonPreferredSize
      close == Rect(panel_size.width - csz.width - kMarginRightOfCloseButton,
                    Half(v.height - csz.height), csz.width, csz.height)
      nsz   == FindNextButtonPreferredSize
      \* find_next_button_->width() is the width the button has on entry
      next  == Rect(close.x - v.next_bounds.width - kMarginLeftOfCloseButton,
                    Half(v.height - nsz.height), nsz.width, nsz.height)
      psz   == FindPreviousButtonPreferredSize
      \* find_previous_button_->width() is the width it has on entry
      prev  == Rect(next.x - v.previous_bounds.width,
                    Half(v.height - psz.height), psz.width, psz.height)
      msz   == MatchCountSize(v.label_text)
      label == Rect(prev.x - kWhiteSpaceAfterMatchCountLabel - msz.width,
                    Half(v.height - msz.height) + 1, msz.width, msz.height)
      tsz   == Size(label.x - kMarginLeftOfFindTextField,
                    FindTextPreferredSize.height)
      text  == Rect(label.x - tsz.width,
                    Half(v.height - tsz.height) + 1, tsz.width, tsz.height)
      find_text_edge == text.x + text.width
      fwd   == Rect(find_text_edge, prev.y, prev.x - find_text_edge,
                    prev.height)
  IN [v EXCEPT !.close_bounds = close,
               !.close_tag = CLOSE_TAG,
               !.next_bounds = next,
               !.next_tag = FIND_NEXT_TAG,
               !.previous_bounds = prev,
               !.previous_tag = FIND_PREVIOUS_TAG,
               !.label_bounds = label,
               !.text_bounds = text,
               !.text_controller = TRUE,
               !.forwarder_bounds = fwd]

(***************************************************************************)
(* Result-state tracking.                                                  *)
(***************************************************************************)
ResetMatchCountBackground(v) ==
  [v EXCEPT !.label_background = kBackgroundColorMatch,
            !.label_color = kTextColorMatchCount]

\* ResetMatchCount, but the label keeps its text.
ResetMatchCount_KeepText(v) ==
  ResetMatchCountBackground([v EXCEPT !.resets = v.resets + 1])

ResetMatchCount(v) ==
  ResetMatchCountBackground(
    [v EXCEPT !.label_text = "", !.resets = v.resets + 1])

\* UpdateMatchCount, but a zero count leaves active_match_ordinal_ alone.
UpdateMatchCount_NoOrdinalReset(v, number_of_matches, final_update) ==
  IF number_of_matches < 0 THEN v
  ELSE IF v.match_count_ > 0 /\ number_of_matches = 1 /\ ~final_update THEN v
  ELSE
    LET v2 == [v EXCEPT !.match_count_ = number_of_matches]
    IN IF v2.find_text = "" \/ number_of_matches > 0
       THEN ResetMatchCountBackground(v2)
       ELSE [v2 EXCEPT !.label_background = kBackgroundColorNoMatch,
                       !.label_color = kTextColorNoMatch,
                       !.beeps = v2.beeps + 1]

\* UpdateMatchCount, but without the early return on a negative count.
UpdateMatchCount_NoNegativeGuard(v, number_of_matches, final_update) ==
  IF v.match_count_ > 0 /\ number_of_matches = 1 /\ ~final_update THEN v
  ELSE
    LET v1 == IF number_of_matches = 0
              THEN [v EXCEPT !.active_match_ordinal_ = 0] ELSE v
        v2 == [v1 EXCEPT !.match_count_ = number_of_matches]
    IN IF v2.find_text = "" \/ number_of_matches > 0
       THEN ResetMatchCountBackground(v2)
       ELSE [v2 EXCEPT !.label_background = kBackgroundColorNoMatch,
                       !.label_color = kTextColorNoMatch,
                       !.beeps = v2.beeps + 1]

\* UpdateMatchCount, but the preliminary-1 suppression ignores final_update.
UpdateMatchCount_SuppressFinal(v, number_of_matches, final_update) ==
  IF number_of_matches < 0 THEN v
  ELSE IF v.match_count_ > 0 /\ number_of_matches = 1 THEN v
  ELSE
    LET v1 == IF number_of_matches = 0
              THEN [v EXCEPT !.active_match_ordinal_ = 0] ELSE v
        v2 == [v1 EXCEPT !.match_count_ = number_of_matches]
    IN IF v2.find_text = "" \/ number_of_matches > 0
       THEN ResetMatchCountBackground(v2)
       ELSE [v2 EXCEPT !.label_background = kBackgroundColorNoMatch,
                       !.label_color = kTextColorNoMatch,
                       !.beeps = v2.beeps + 1]

\* UpdateMatchCount, but the highlight test forgets the empty search text.
UpdateMatchCount_NoTextCheck(v, number_of_matches, final_update) ==
  IF number_of_matches < 0 THEN v
  ELSE IF v.match_count_ > 0 /\ number_of_matches = 1 /\ ~final_update THEN v
  ELSE
    LET v1 == IF number_of_matches = 0
              THEN [v EXCEPT !.active_match_ordinal_ = 0] ELSE v
        v2 == [v1 EXCEPT !.match_count_ = number_of_matches]
    IN IF number_of_matches > 0
       THEN ResetMatchCountBackground(v2)
       ELSE [v2 EXCEPT !.label_background = kBackgroundColorNoMatch,
                       !.label_color = kTextColorNoMatch,
                       !.beeps = v2.beeps + 1]

\* UpdateMatchCount, but a negative count puts the panel back to "unknown".
UpdateMatchCount_NegativeResets(v, number_of_matches, final_update) ==
  IF number_of_matches < 0
  THEN [v EXCEPT !.match_count_ = -1, !.active_match_ordinal_ = -1]
  ELSE IF v.match_count_ > 0 /\ number_of_matches = 1 /\ ~final_update THEN v
  ELSE
    LET v1 == IF number_of_matches = 0
              THEN [v EXCEPT !.active_match_ordinal_ = 0] ELSE v
        v2 == [v1 EXCEPT !.match_count_ = number_of_matches]
    IN IF v2.find_text = "" \/ number_of_matches > 0
       THEN ResetMatchCountBackground(v2)
       ELSE [v2 EXCEPT !.label_background = kBackgroundColorNoMatch,
                       !.label_color = kTextColorNoMatch,
                       !.beeps = v2.beeps + 1]

UpdateMatchCount(v, number_of_matches, final_update) ==
  IF number_of_matches < 0 THEN v
  ELSE IF v.match_count_ > 0 /\ number_of_matches = 1 /\ ~final_update THEN v
  ELSE
    LET v1 == IF number_of_matches = 0
              THEN [v EXCEPT !.active_match_ordinal_ = 0] ELSE v
        v2 == [v1 EXCEPT !.match_count_ = number_of_matches]
    IN IF v2.find_text = "" \/ number_of_matches > 0
       THEN ResetMatchCountBackground(v2)
       ELSE [v2 EXCEPT !.label_background = kBackgroundColorNoMatch,
                       !.label_color = kTextColorNoMatch,
                       !.beeps = v2.beeps + 1]

\* UpdateActiveMatchOrdinal, but a negative ordinal is stored too.
UpdateActiveMatchOrdinal_StoreNegative(v, ordinal) ==
  [v EXCEPT !.active_match_ordinal_ = ordinal]

UpdateActiveMatchOrdinal(v, ordinal) ==
  IF ordinal >= 0 THEN [v EXCEPT !.active_match_ordinal_ = ordinal] ELSE v

\* UpdateResultLabel, but the buttons are enabled for any known count.
UpdateResultLabel_EnableOnZero(v) ==
  LET search_string == v.find_text
      v1 == IF Len(search_string) > 0
            THEN [v EXCEPT !.label_text =
                     GetStringF(IntToWString(v.active_match_ordinal_),
                                IntToWString(v.match_count_))]
            ELSE ResetMatchCount(v)
      v2 == [v1 EXCEPT !.previous_enabled = (v1.match_count_ >= 0),
                       !.next_enabled = (v1.match_count_ >= 0)]
  IN Layout(v2)

\* UpdateResultLabel, but the two numbers of the label are swapped.
UpdateResultLabel_SwappedNumbers(v) ==
  LET search_string == v.find_text
      v1 == IF Len(search_string) > 0
            THEN [v EXCEPT !.label_text =
                     GetStringF(IntToWString(v.match_count_),
                                IntToWString(v.active_match_ordinal_))]
            ELSE ResetMatchCount(v)
      v2 == [v1 EXCEPT !.previous_enabled = (v1.match_count_ > 0),
                       !.next_enabled = (v1.match_count_ > 0)]
  IN Layout(v2)

UpdateResultLabel(v) ==
  LET search_string == v.find_text
      v1 == IF Len(search_string) > 0
            THEN [v EXCEPT !.label_text =
                     GetStringF(IntToWString(v.active_match_ordinal_),
                                IntToWString(v.match_count_))]
            ELSE ResetMatchCount(v)
      v2 == [v1 EXCEPT !.previous_enabled = (v1.match_count_ > 0),
                       !.next_enabled = (v1.match_count_ > 0)]
  IN Layout(v2)

(***************************************************************************)
(* Calls the panel makes on controller_.                                   *)
(***************************************************************************)
\* set_find_string(text) followed by StartFinding(forward)
StartCalls(text, forward) ==
  << Call("set_find_string", text), Call("StartFinding", forward) >>

\* ButtonPressedCalls, but both navigation buttons search forward.
ButtonPressedCalls_AlwaysForward(v, tag) ==
  IF tag \in { FIND_PREVIOUS_TAG, FIND_NEXT_TAG }
  THEN IF Len(v.find_text) > 0
       THEN StartCalls(v.find_text, TRUE)
       ELSE << >>
  ELSE IF tag = CLOSE_TAG THEN << Call("EndFindSession", "") >>
  ELSE << >>

\* ButtonPressedCalls, but the default case falls into the close case.
ButtonPressedCalls_DefaultCloses(v, tag) ==
  IF tag \in { FIND_PREVIOUS_TAG, FIND_NEXT_TAG }
  THEN IF Len(v.find_text) > 0
       THEN StartCalls(v.find_text, tag = FIND_NEXT_TAG)
       ELSE << >>
  ELSE << Call("EndFindSession", "") >>

\* ButtonPressed: the calls on controller_ for a button tag.
ButtonPressedCalls(v, tag) ==
  IF tag \in { FIND_PREVIOUS_TAG, FIND_NEXT_TAG }
  THEN IF Len(v.find_text) > 0
       THEN StartCalls(v.find_text, tag = FIND_NEXT_TAG)
       ELSE << >>
  ELSE IF tag = CLOSE_TAG THEN << Call("EndFindSession", "") >>
  ELSE << >>

\* HandleKeystrokeCalls, but without the IsVisible test.
HandleKeystrokeCalls_NoVisibleTest(v, visible, key, shift_down) ==
  IF key = VK_RETURN /\ Len(v.find_text) > 0
  THEN StartCalls(v.find_text, ~shift_down)
  ELSE << >>

\* HandleKeystroke: the calls on controller_ for a keystroke.
\* shift_down stands for GetKeyState(VK_SHIFT) < 0.
HandleKeystrokeCalls(v, visible, key, shift_down) ==
  IF ~visible THEN << >>
  ELSE IF key = VK_RETURN /\ Len(v.find_text) > 0
       THEN StartCalls(v.find_text, ~shift_down)
       ELSE << >>

\* ContentsChangedCalls, but an emptied text box restarts the search
\* instead of stopping it.
ContentsChangedCalls_StartOnEmpty(new_contents) ==
  StartCalls(new_contents, TRUE)

\* ContentsChanged: the calls on controller_ for the new contents.
ContentsChangedCalls(new_contents) ==
  IF Len(new_contents) > 0
  THEN StartCalls(new_contents, TRUE)
  ELSE << Call("StopFinding", TRUE), Call("set_find_string", "") >>

\* ContentsChanged, but the panel resets its result state on every change.
ContentsChanged_AlwaysReset(v, new_contents) ==
  LET v0 == [v EXCEPT !.find_text = new_contents]
  IN UpdateResultLabel(UpdateMatchCount(v0, 0, TRUE))

\* ContentsChanged, but the reset runs while the text field still holds
\* its old contents.
ContentsChanged_StaleText(v, new_contents) ==
  IF Len(new_contents) > 0 THEN [v EXCEPT !.find_text = new_contents]
  ELSE [UpdateResultLabel(UpdateMatchCount(v, 0, TRUE))
          EXCEPT !.find_text = new_contents]

\* ContentsChanged: the panel after the handler (the text field already
\* holds new_contents when its controller is notified).
ContentsChanged(v, new_contents) ==
  LET v0 == [v EXCEPT !.find_text = new_contents]
  IN IF Len(new_contents) > 0 THEN v0
     ELSE UpdateResultLabel(UpdateMatchCount(v0, 0, TRUE))

\* The controller's find string after a sequence of calls on it.
RECURSIVE FindStringAfter(_, _)
FindStringAfter(fs, cs) ==
  IF cs = << >> THEN fs
  ELSE FindStringAfter(IF Head(cs).fn = "set_find_string"
                       THEN Head(cs).arg ELSE fs, Tail(cs))

(***************************************************************************)
(* Actions: one per entry point of the panel.                              *)
(***************************************************************************)
Init ==
  /\ view = Constructed
  /\ find_string = ""
  /\ calls = << >>
  /\ lastOp = Op("FindInPageView", 0, FALSE, FALSE, "")

\* The host sizes the panel and the toolkit lays it out.
DoLayout ==
  \E h \in PanelHeights :
    /\ view' = Layout([Enter(view) EXCEPT !.height = h])
    /\ calls' = << >>
    /\ lastOp' = Op("Layout", h, FALSE, FALSE, "")
    /\ UNCHANGED find_string

\* The controller reports a match count.
DoUpdateMatchCount ==
  \E n \in Counts, f \in BOOLEAN :
    /\ view' = UpdateMatchCount(Enter(view), n, f)
    /\ calls' = << >>
    /\ lastOp' = Op("UpdateMatchCount", n, f, FALSE, "")
    /\ UNCHANGED find_string

\* The controller reports the active match ordinal.
DoUpdateActiveMatchOrdinal ==
  \E o \in Ordinals :
    /\ view' = UpdateActiveMatchOrdinal(Enter(view), o)
    /\ calls' = << >>
    /\ lastOp' = Op("UpdateActiveMatchOrdinal", o, FALSE, FALSE, "")
    /\ UNCHANGED find_string

\* The controller asks for the label to be refreshed.
DoUpdateResultLabel ==
  /\ view' = UpdateResultLabel(Enter(view))
  /\ calls' = << >>
  /\ lastOp' = Op("UpdateResultLabel", 0, FALSE, FALSE, "")
  /\ UNCHANGED find_string

\* The user edits the text field (its controller is set by Layout).
DoContentsChanged ==
  \E t \in Texts :
    /\ view.text_controller
    /\ t # view.find_text
    /\ view' = ContentsChanged(Enter(view), t)
    /\ calls' = ContentsChangedCalls(t)
    /\ find_string' = FindStringAfter(find_string, calls')
    /\ lastOp' = Op("ContentsChanged", 0, FALSE, FALSE, t)

\* The user presses a key in the text field (its controller is set by Layout).
DoHandleKeystroke ==
  \E key \in Keys, shift \in BOOLEAN, visible \in BOOLEAN :
    /\ view.text_controller
    /\ view' = Enter(view)
    /\ calls' = HandleKeystrokeCalls(view, visible, key, shift)
    /\ find_string' = FindStringAfter(find_string, calls')
    /\ lastOp' = Op("HandleKeystroke", 0, shift, visible, key)

\* A button whose listener is the panel is pressed; the panel's own buttons
\* get their listener in Layout and can be pressed only while enabled.
CanPress(v, tag) ==
  CASE tag = FIND_PREVIOUS_TAG -> v.previous_tag = tag /\ v.previous_enabled
    [] tag = FIND_NEXT_TAG     -> v.next_tag = tag /\ v.next_enabled
    [] tag = CLOSE_TAG         -> v.close_tag = tag
    [] OTHER                   -> TRUE

DoButtonPressed ==
  \E tag \in Tags :
    /\ CanPress(view, tag)
    /\ view' = [Enter(view) EXCEPT
                  !.faults = IF tag = UNKNOWN_TAG THEN 1 ELSE 0]
    /\ calls' = ButtonPressedCalls(view, tag)
    /\ find_string' = FindStringAfter(find_string, calls')
    /\ lastOp' = Op("ButtonPressed", 0, FALSE, FALSE, tag)

Next ==
  \/ DoLayout
  \/ DoUpdateMatchCount
  \/ DoUpdateActiveMatchOrdinal
  \/ DoUpdateResultLabel
  \/ DoContentsChanged
  \/ DoHandleKeystroke
  \/ DoButtonPressed

Spec == Init /\ [][Next]_vars

(***************************************************************************)
(* Sequences made only of UpdateMatchCount calls: the panel is             *)
(* constructed, laid out by its host and the user may have typed a search  *)
(* text (none of which touches match_count_ or active_match_ordinal_);     *)
(* from then on the controller only reports match counts.                  *)
(***************************************************************************)
InitUMC ==
  \E h \in PanelHeights, t \in Texts :
    LET laid == Layout([Constructed EXCEPT !.height = h])
    IN /\ view = IF t = "" THEN laid ELSE ContentsChanged(laid, t)
       /\ calls = IF t = "" THEN << >> ELSE ContentsChangedCalls(t)
       /\ find_string = t
       /\ lastOp = IF t = "" THEN Op("Layout", h, FALSE, FALSE, "")
                   ELSE Op("ContentsChanged", 0, FALSE, FALSE, t)

NextUMC == DoUpdateMatchCount

SpecUMC == InitUMC /\ [][NextUMC]_vars

(***************************************************************************)
(* Vocabulary of the properties.                                           *)
(***************************************************************************)
MatchFoundStyle(v) ==
  /\ v.label_background = kBackgroundColorMatch
  /\ v.label_color = kTextColorMatchCount

NoMatchStyle(v) ==
  /\ v.label_background = kBackgroundColorNoMatch
  /\ v.label_color = kTextColorNoMatch

\* The last handler was UpdateResultLabel, called directly.
AfterUpdateResultLabel == lastOp.op = "UpdateResultLabel"

\* The last handler was ContentsChanged with empty new contents.
AfterTextEmptied == lastOp.op = "ContentsChanged" /\ lastOp.str = ""

\* The step is an UpdateMatchCount(n, f) call.
IsUpdateMatchCountStep == lastOp'.op = "UpdateMatchCount"

\* The update UpdateMatchCount(n, f) is one the panel ignores when its
\* match count is prior.
IsIgnoredUpdate(prior, n, f) == n < 0 \/ (prior > 0 /\ n = 1 /\ ~f)

RECURSIVE CountCalls(_, _)
CountCalls(cs, fn) ==
  IF cs = << >> THEN 0
  ELSE (IF Head(cs).fn = fn THEN 1 ELSE 0) + CountCalls(Tail(cs), fn)

(***************************************************************************)
(* C1.  As stated: in every reachable state the previous and next buttons  *)
(* are enabled if and only if matchCount > 0.                              *)
(***************************************************************************)
C1_ButtonsTrackMatchCount ==
  /\ view.previous_enabled <=> (view.match_count_ > 0)
  /\ view.next_enabled <=> (view.match_count_ > 0)

\* C1, amended: the buttons are disabled after construction, and right after
\* every UpdateResultLabel (the one a text-changed-to-empty event makes
\* included) they are enabled if and only if matchCount > 0; the two buttons
\* always agree.
C1_ButtonsAfterRefresh ==
  /\ view.previous_enabled = view.next_enabled
  /\ lastOp.op = "FindInPageView" => ~view.previous_enabled
  /\ (AfterUpdateResultLabel \/ AfterTextEmptied)
       => (view.previous_enabled <=> (view.match_count_ > 0))

C1_Witness ==
  /\ AfterUpdateResultLabel
  /\ view.match_count_ > 0
  /\ view.previous_enabled /\ view.next_enabled

(***************************************************************************)
(* C2.  In every reachable state, under any interleaving of                *)
(* UpdateMatchCount and UpdateActiveMatchOrdinal calls, matchCount = 0     *)
(* implies activeMatchOrdinal = 0.                                         *)
(***************************************************************************)
C2_ZeroCountZeroOrdinal ==
  view.match_count_ = 0 => view.active_match_ordinal_ = 0

(***************************************************************************)
(* C3.  Under SpecUMC (only UpdateMatchCount calls after construction):    *)
(* whenever the most recently accepted count is 0, activeMatchOrdinal is   *)
(* 0; the ordinal is never anything but its initial -1 or 0.               *)
(***************************************************************************)
C3_OnlyCountsZeroOrdinal ==
  /\ view.active_match_ordinal_ \in { -1, 0 }
  /\ view.match_count_ # 0 \/ view.active_match_ordinal_ = 0

C3_Witness ==
  /\ lastOp.op = "UpdateMatchCount"
  /\ lastOp.n = 0
  /\ view.match_count_ = 0
  /\ view.active_match_ordinal_ = 0

(***************************************************************************)
(* C4.  An ignored update is a complete no-op: UpdateMatchCount with a     *)
(* negative count, and UpdateMatchCount(1, false) while matchCount > 0,    *)
(* leave matchCount, activeMatchOrdinal, the label text, the label style   *)
(* and the button enablement unchanged, emit no alert and make no          *)
(* controller call.                                                        *)
(***************************************************************************)
C4_IgnoredUpdateIsNoOp ==
  [][ (IsUpdateMatchCountStep
        /\ IsIgnoredUpdate(view.match_count_, lastOp'.n, lastOp'.flag))
      => /\ view'.match_count_ = view.match_count_
         /\ view'.active_match_ordinal_ = view.active_match_ordinal_
         /\ view'.label_text = view.label_text
         /\ view'.label_background = view.label_background
         /\ view'.label_color = view.label_color
         /\ view'.previous_enabled = view.previous_enabled
         /\ view'.next_enabled = view.next_enabled
         /\ view'.beeps = 0
         /\ calls' = << >>
         /\ find_string' = find_string ]_vars

\* A preliminary 1 was received, and ignored, while a larger count is
\* recorded.
C4_Witness ==
  /\ lastOp.op = "UpdateMatchCount"
  /\ lastOp.n = 1 /\ ~lastOp.flag
  /\ view.match_count_ > 1
  /\ view.beeps = 0

(***************************************************************************)
(* C5.  Suppression rule: with a prior matchCount > 0,                     *)
(* UpdateMatchCount(1, false) leaves matchCount at its prior value and     *)
(* UpdateMatchCount(1, true) sets it to 1; every other update with         *)
(* count >= 0 stores count as matchCount.                                  *)
(***************************************************************************)
C5_SuppressionRule ==
  [][ IsUpdateMatchCountStep =>
        LET prior == view.match_count_
            n     == lastOp'.n
            f     == lastOp'.flag
        IN /\ (prior > 0 /\ n = 1 /\ ~f) => view'.match_count_ = prior
           /\ (prior > 0 /\ n = 1 /\ f) => view'.match_count_ = 1
           /\ (n >= 0 /\ (prior <= 0 \/ n # 1)) => view'.match_count_ = n
    ]_vars

\* A final count of 1 replaced a larger recorded count.
C5_Witness ==
  /\ lastOp.op = "UpdateMatchCount"
  /\ lastOp.n = 1 /\ lastOp.flag
  /\ view.match_count_ = 1
  /\ view.active_match_ordinal_ > 1

(***************************************************************************)
(* C6.  A negative (unknown) matchCount is never shown in the label:       *)
(* after any UpdateResultLabel made while matchCount < 0 the label text    *)
(* is empty, whatever the search text is.                                  *)
(***************************************************************************)
C6_UnknownCountNotShown ==
  (AfterUpdateResultLabel /\ view.match_count_ < 0) => view.label_text = ""

(***************************************************************************)
(* C7.  As stated: UpdateResultLabel called while the search text is       *)
(* empty always results in an empty label and both the previous and the    *)
(* next button disabled, whatever matchCount is.                           *)
(***************************************************************************)
C7_EmptyTextDisablesButtons ==
  (AfterUpdateResultLabel /\ view.find_text = "")
    => /\ view.label_text = ""
       /\ ~view.previous_enabled
       /\ ~view.next_enabled

\* C7, amended: UpdateResultLabel called while the search text is empty
\* always results in an empty label in the "match found" style, made by one
\* label reset; both buttons are disabled when matchCount <= 0 and both are
\* enabled when matchCount > 0.
C7_EmptyTextClearsLabel ==
  (AfterUpdateResultLabel /\ view.find_text = "")
    => /\ view.label_text = ""
       /\ MatchFoundStyle(view)
       /\ view.resets = 1
       /\ view.match_count_ <= 0 => (~view.previous_enabled
                                       /\ ~view.next_enabled)
       /\ view.match_count_ > 0 => (view.previous_enabled
                                      /\ view.next_enabled)

\* The label was refreshed with an empty search text after a text had been
\* searched (the controller still holds it) and a positive count recorded.
C7_Witness ==
  /\ AfterUpdateResultLabel
  /\ view.find_text = ""
  /\ view.match_count_ > 0
  /\ view.label_text = ""
  /\ view.previous_enabled /\ view.next_enabled

(***************************************************************************)
(* C8.  UpdateResultLabel called while the search text is non-empty sets   *)
(* the label to "<activeMatchOrdinal> of <matchCount>" (2 of 3 for         *)
(* ordinal 2 and count 3) and, when matchCount > 0, leaves both buttons    *)
(* enabled.                                                                *)
(***************************************************************************)
C8_LabelShowsOrdinalOfCount ==
  (AfterUpdateResultLabel /\ view.find_text # "")
    => /\ view.label_text = IntToWString(view.active_match_ordinal_)
                              \o " of " \o IntToWString(view.match_count_)
       /\ (view.active_match_ordinal_ = 2 /\ view.match_count_ = 3)
            => view.label_text = "2 of 3"
       /\ (view.active_match_ordinal_ = 0 /\ view.match_count_ = 0)
            => view.label_text = "0 of 0"
       /\ view.resets = 0
       /\ view.match_count_ > 0 => (view.previous_enabled
                                      /\ view.next_enabled)

C8_Witness ==
  /\ AfterUpdateResultLabel
  /\ view.find_text # ""
  /\ view.active_match_ordinal_ = 2
  /\ view.match_count_ = 3
  /\ view.label_text = "2 of 3"
  /\ view.previous_enabled /\ view.next_enabled

(***************************************************************************)
(* C9.  A text-changed-to-empty event makes exactly one StopFinding(true)  *)
(* call and exactly one label reset and no StartFinding call; the          *)
(* controller's find string is set to empty only after the stop.           *)
(***************************************************************************)
C9_TextEmptiedStopsOnce ==
  AfterTextEmptied
    => /\ CountCalls(calls, "StopFinding") = 1
       /\ CountCalls(calls, "StartFinding") = 0
       /\ CountCalls(calls, "set_find_string") = 1
       /\ Len(calls) = 2
       /\ calls[1].fn = "StopFinding" /\ calls[1].arg = TRUE
       /\ calls[2].fn = "set_find_string" /\ calls[2].arg = ""
       /\ find_string = ""
       /\ view.resets = 1

\* The text box was emptied while a count was shown.
C9_Witness ==
  /\ AfterTextEmptied
  /\ Len(calls) = 2
  /\ view.resets = 1
  /\ view.label_text = ""
  /\ view.find_text = ""

(***************************************************************************)
(* C10.  After every accepted UpdateMatchCount(count, isFinal) the label   *)
(* has the "match found" style if the search text is empty or count > 0,   *)
(* and the "no match" style otherwise; the alert is emitted exactly once   *)
(* in the latter case and never in the former.                             *)
(***************************************************************************)
C10_HighlightAfterAcceptedUpdate ==
  [][ (IsUpdateMatchCountStep
        /\ ~IsIgnoredUpdate(view.match_count_, lastOp'.n, lastOp'.flag))
      => IF view'.find_text = "" \/ lastOp'.n > 0
         THEN MatchFoundStyle(view') /\ view'.beeps = 0
         ELSE NoMatchStyle(view') /\ view'.beeps = 1 ]_vars

\* A zero count arrived for a non-empty search text: red label, one alert.
C10_Witness ==
  /\ lastOp.op = "UpdateMatchCount"
  /\ lastOp.n = 0
  /\ view.find_text # ""
  /\ view.match_count_ = 0
  /\ NoMatchStyle(view)
  /\ view.beeps = 1

(***************************************************************************)
(* Vocabulary of the layout properties.                                    *)
(***************************************************************************)
\* The last handler ran Layout: directly, or through UpdateResultLabel.
AfterLayout ==
  lastOp.op = "Layout" \/ AfterUpdateResultLabel \/ AfterTextEmptied

Right(r) == r.x + r.width

\* The bounds of the five visible controls, left to right.
VisibleBounds(v) ==
  << v.text_bounds, v.label_bounds, v.previous_bounds, v.next_bounds,
     v.close_bounds >>

(***************************************************************************)
(* C11.  After any Layout call (the first one after construction           *)
(* included) the text input, label, previous, next and close button have   *)
(* pairwise non-overlapping bounds ordered left to right, all inside       *)
(* [0, panel width); the next button ends the fixed margin left of the     *)
(* close button, the previous button ends at the next button's left edge,  *)
(* and the text input takes all the remaining width.                       *)
(***************************************************************************)
C11_LayoutOrderedInsidePanel ==
  AfterLayout =>
    LET b == VisibleBounds(view)
    IN /\ \A i \in 1..5 : /\ b[i].x >= 0
                          /\ b[i].width > 0
                          /\ Right(b[i]) <= GetPreferredSize.width
       /\ \A i \in 1..4 : Right(b[i]) <= b[i + 1].x
       /\ Right(view.next_bounds)
            = view.close_bounds.x - kMarginLeftOfCloseButton
       /\ Right(view.previous_bounds) = view.next_bounds.x
       /\ view.text_bounds.x = kMarginLeftOfFindTextField
       /\ Right(view.text_bounds) = view.label_bounds.x

(***************************************************************************)
(* C12.  The bounds Layout assigns are determined by the panel size and    *)
(* the controls' preferred sizes, not by the controls' previous bounds:    *)
(* Layout yields the bounds it yields from the same panel with other       *)
(* previous bounds (those of a new panel), and running Layout twice in a   *)
(* row (same panel height, same label) yields the same bounds as running   *)
(* it once.                                                                *)
(***************************************************************************)
\* The panel v with the bounds its controls have after construction.
WithFreshBounds(v) ==
  [v EXCEPT !.close_bounds = ZeroRect,
            !.next_bounds = ZeroRect,
            !.previous_bounds = ZeroRect,
            !.label_bounds = ZeroRect,
            !.text_bounds = ZeroRect,
            !.forwarder_bounds = ZeroRect]

C12_LayoutIgnoresPreviousBounds ==
  [][ lastOp'.op = "Layout" =>
        /\ VisibleBounds(view')
             = VisibleBounds(Layout(WithFreshBounds(view')))
        /\ (lastOp.op = "Layout" /\ lastOp'.n = lastOp.n)
             => VisibleBounds(view') = VisibleBounds(view) ]_vars

(***************************************************************************)
(* C13.  After any Layout call the label's width is                        *)
(* max(natural text width + 9, 30), hence never below 30, for every label  *)
(* text, the empty one included.                                           *)
(***************************************************************************)
C13_LabelWidthAtLeastMinimum ==
  AfterLayout =>
    LET natural == FontCharWidth * Len(view.label_text)
    IN /\ view.label_bounds.width >= 30
       /\ view.label_bounds.width
            = (IF natural + 9 >= 30 THEN natural + 9 ELSE 30)

\* Laid out with an empty label: the minimum width applies.
C13_Witness ==
  /\ lastOp.op = "Layout"
  /\ view.label_text = ""
  /\ view.label_bounds.width = 30

(***************************************************************************)
(* Vocabulary of the event properties.                                     *)
(***************************************************************************)
\* The result state, label and buttons of the panel.
ResultState(v) ==
  << v.match_count_, v.active_match_ordinal_, v.label_text,
     v.label_background, v.label_color, v.previous_enabled,
     v.next_enabled >>

\* cs is set_find_string(text) followed by one StartFinding(forward).
IsSetThenStart(cs, text, forward) ==
  /\ Len(cs) = 2
  /\ cs[1].fn = "set_find_string" /\ cs[1].arg = text
  /\ cs[2].fn = "StartFinding" /\ cs[2].arg = forward

(***************************************************************************)
(* C14.  UpdateActiveMatchOrdinal(ordinal) stores ordinal when it is >= 0  *)
(* and leaves activeMatchOrdinal unchanged when it is < 0; matchCount, the *)
(* label and the button enablement are unchanged in both cases.            *)
(***************************************************************************)
C14_OrdinalStoredUnlessNegative ==
  [][ lastOp'.op = "UpdateActiveMatchOrdinal" =>
        /\ view'.active_match_ordinal_ =
             (IF lastOp'.n >= 0 THEN lastOp'.n
              ELSE view.active_match_ordinal_)
        /\ view'.match_count_ = view.match_count_
        /\ view'.label_text = view.label_text
        /\ view'.label_background = view.label_background
        /\ view'.label_color = view.label_color
        /\ view'.previous_enabled = view.previous_enabled
        /\ view'.next_enabled = view.next_enabled
        /\ calls' = << >> ]_vars

\* A negative ordinal arrived and the recorded positive ordinal stayed.
C14_Witness ==
  /\ lastOp.op = "UpdateActiveMatchOrdinal"
  /\ lastOp.n < 0
  /\ view.active_match_ordinal_ > 0

(***************************************************************************)
(* C15.  A Return keystroke while the controller reports the panel visible *)
(* and the search text is non-empty sets the controller's find string to   *)
(* the text and then starts a search, forward without Shift and backward   *)
(* with Shift; otherwise the keystroke makes no controller call; the       *)
(* panel's state does not change.                                          *)
(***************************************************************************)
C15_ReturnStartsSearch ==
  [][ lastOp'.op = "HandleKeystroke" =>
        LET shift   == lastOp'.flag
            visible == lastOp'.flag2
            key     == lastOp'.str
        IN /\ IF visible /\ key = VK_RETURN /\ view.find_text # ""
              THEN /\ IsSetThenStart(calls', view.find_text, ~shift)
                   /\ find_string' = view.find_text
              ELSE /\ calls' = << >>
                   /\ find_string' = find_string
           /\ Enter(view') = Enter(view)
           /\ view'.beeps = 0 /\ view'.resets = 0 ]_vars

\* Shift+Return on a visible panel with a search text: backward search.
C15_Witness ==
  /\ lastOp.op = "HandleKeystroke"
  /\ lastOp.str = VK_RETURN /\ lastOp.flag /\ lastOp.flag2
  /\ view.find_text # ""
  /\ Len(calls) = 2
  /\ calls[2].fn = "StartFinding" /\ calls[2].arg = FALSE

(***************************************************************************)
(* C16.  A press of the previous or next button with non-empty search     *)
(* text sets the controller's find string to the text and then starts     *)
(* exactly one search, forward for next and backward for previous; with   *)
(* empty search text the press makes no controller call.                  *)
(***************************************************************************)
C16_NavigationButtonsStartSearch ==
  (lastOp.op = "ButtonPressed"
     /\ lastOp.str \in { FIND_PREVIOUS_TAG, FIND_NEXT_TAG })
    => IF view.find_text # ""
       THEN /\ IsSetThenStart(calls, view.find_text,
                              lastOp.str = FIND_NEXT_TAG)
            /\ CountCalls(calls, "StartFinding") = 1
            /\ find_string = view.find_text
       ELSE calls = << >>

\* The previous button was pressed with a search text: backward search.
C16_Witness ==
  /\ lastOp.op = "ButtonPressed"
  /\ lastOp.str = FIND_PREVIOUS_TAG
  /\ view.find_text # ""
  /\ Len(calls) = 2
  /\ calls[2].fn = "StartFinding" /\ calls[2].arg = FALSE

(***************************************************************************)
(* C17.  A text change to non-empty contents sets the controller's find    *)
(* string to the new contents and then requests exactly one forward        *)
(* search, with no StopFinding call and no change of matchCount,           *)
(* activeMatchOrdinal, the label or the button enablement.                 *)
(***************************************************************************)
C17_RetypeStartsForwardSearch ==
  [][ (lastOp'.op = "ContentsChanged" /\ lastOp'.str # "") =>
        /\ IsSetThenStart(calls', lastOp'.str, TRUE)
        /\ CountCalls(calls', "StopFinding") = 0
        /\ find_string' = lastOp'.str
        /\ view'.find_text = lastOp'.str
        /\ ResultState(view') = ResultState(view)
        /\ view'.beeps = 0 /\ view'.resets = 0 ]_vars

\* The user retyped while the count of an earlier search is shown.
C17_Witness ==
  /\ lastOp.op = "ContentsChanged"
  /\ lastOp.str # ""
  /\ view.match_count_ > 0
  /\ view.label_text # ""
  /\ view.previous_enabled

(***************************************************************************)
(* C18.  A close-button press makes exactly one EndFindSession call and no *)
(* set-find-string, start or stop call; a press with an unrecognized       *)
(* identifier reaches the fault branch and makes no controller call; in    *)
(* both cases the panel's state does not change.                           *)
(***************************************************************************)
C18_CloseEndsSession ==
  [][ lastOp'.op = "ButtonPressed" =>
        /\ lastOp'.str = CLOSE_TAG =>
             /\ Len(calls') = 1
             /\ calls'[1].fn = "EndFindSession"
             /\ view'.faults = 0
             /\ find_string' = find_string
        /\ lastOp'.str = UNKNOWN_TAG =>
             /\ calls' = << >>
             /\ view'.faults = 1
             /\ find_string' = find_string
        /\ lastOp'.str \in { FIND_PREVIOUS_TAG, FIND_NEXT_TAG } =>
             view'.faults = 0
        /\ Enter(view') = Enter(view) ]_vars

\* The close button was pressed while a count is shown for a search text.
C18_Witness ==
  /\ lastOp.op = "ButtonPressed"
  /\ lastOp.str = CLOSE_TAG
  /\ Len(calls) = 1
  /\ view.find_text # ""
  /\ view.match_count_ > 0

(***************************************************************************)
(* C19.  Right after a text-changed-to-empty event, from every prior       *)
(* state: matchCount = 0, activeMatchOrdinal = 0, the label is empty with  *)
(* the "match found" style, both navigation buttons are disabled, and no   *)
(* alert was emitted while handling the event.                             *)
(***************************************************************************)
C19_TextEmptiedResetsPanel ==
  AfterTextEmptied =>
    /\ view.find_text = ""
    /\ view.match_count_ = 0
    /\ view.active_match_ordinal_ = 0
    /\ view.label_text = ""
    /\ MatchFoundStyle(view)
    /\ ~view.previous_enabled
    /\ ~view.next_enabled
    /\ view.beeps = 0

C19_Witness ==
  /\ AfterTextEmptied
  /\ view.match_count_ = 0
  /\ view.active_match_ordinal_ = 0
  /\ MatchFoundStyle(view)
  /\ ~view.previous_enabled /\ ~view.next_enabled
  /\ find_string = ""

(***************************************************************************)
(* C20.  activeMatchOrdinal is an index among the current matches: in      *)
(* every reachable state with matchCount >= 0,                             *)
(* 0 <= activeMatchOrdinal <= matchCount.                                  *)
(***************************************************************************)
C20_OrdinalWithinCount ==
  view.match_count_ >= 0 =>
    /\ 0 <= view.active_match_ordinal_
    /\ view.active_match_ordinal_ <= view.match_count_

(***************************************************************************)
(* C21.  Once an UpdateMatchCount has been accepted or a                   *)
(* text-changed-to-empty event handled, matchCount >= 0 in every later     *)
(* state: nothing returns matchCount to the unknown value -1;              *)
(* activeMatchOrdinal is never below -1 and never returns to a negative    *)
(* value once it has been non-negative.                                    *)
(***************************************************************************)
C21_UnknownNeverReturns ==
  [][ /\ view'.match_count_ >= -1
      /\ view'.active_match_ordinal_ >= -1
      /\ view.match_count_ >= 0 => view'.match_count_ >= 0
      /\ view.active_match_ordinal_ >= 0 => view'.active_match_ordinal_ >= 0
      /\ (IsUpdateMatchCountStep
           /\ ~IsIgnoredUpdate(view.match_count_, lastOp'.n, lastOp'.flag))
         => view'.match_count_ >= 0
      /\ (lastOp'.op = "ContentsChanged" /\ lastOp'.str = "")
         => view'.match_count_ >= 0 ]_vars

\* A negative count arrived after a count and an ordinal were recorded,
\* and both stayed non-negative.
C21_Witness ==
  /\ lastOp.op = "UpdateMatchCount"
  /\ lastOp.n < 0
  /\ view.match_count_ >= 0
  /\ view.active_match_ordinal_ >= 0

====
